---- MODULE Spec2Model ----
(***************************************************************************)
(* Task orchestration layer of pdf2zh_next/http_api.py: the SQLite-backed  *)
(* TaskStorage behind one asyncio.Lock, TranslationService.submit and      *)
(* _run_task, and the task endpoints that read the store.                  *)
(*                                                                         *)
(* Python None is the empty tuple <<>> and a present optional value v is   *)
(* <<v>>.  A pathlib.Path is [path |-> s] and str() of it is s.  Time is   *)
(* counted in days; progress is counted in percent (1.0 is 100).           *)
(***************************************************************************)
EXTENDS Integers, Sequences, FiniteSets, TLC

VARIABLES
    clock,      \* datetime.utcnow(), in days
    rows,       \* the tasks table: task id -> row
    nextId,     \* number of task identifiers uuid4 has handed out
    lock,       \* TaskStorage._lock: <<>> when free, else <<holder>>
    runner,     \* per task: the position of its _run_task coroutine
    produced,   \* per task: the events its engine stream has yielded so far
    submitted,  \* per task: who submitted it, with what, and how submit ended
    call,       \* the last endpoint call and what it answered
    pend        \* StoreSpec only: the concurrent store calls in flight

vars == <<clock, rows, nextId, lock, runner, produced, submitted, call, pend>>

----------------------------------------------------------------------------
(* Bounds of the model *)

MaxTasks == 2
MaxEvents == 2
MaxTicks == 1
TickDays == 8

(* Program constants *)

GuestRetentionDays == 7
ProgressDone == 100
DefaultLimit == 20
MaxLimit == 100

None == <<>>
Some(v) == <<v>>

TaskIds == 1..MaxTasks
TaskStatus == {"PENDING", "RUNNING", "DONE", "FAILED"}
Terminal == {"DONE", "FAILED"}

Path(s) == [path |-> s]
Str(p) == p.path

(* The users the owner resolver can yield: the guest identity, and a      *)
(* registered user, whose retention_days column register_user leaves NULL. *)
GUEST_USER == [username |-> "guest", retention_days |-> Some(GuestRetentionDays)]
RegisteredUser == [username |-> "alice", retention_days |-> None]
Users == {GUEST_USER, RegisteredUser}

----------------------------------------------------------------------------
(* TaskStorage *)

is_expired(record, now) ==
    IF record.retention_days = None
    THEN FALSE
    ELSE now - record.created_at > record.retention_days[1]

(* delete raising KeyError when there is no row *)
delete_strict(rs, task_id, locked) ==
    IF locked
    THEN [rows |-> rs, out |-> "Blocked"]
    ELSE IF task_id \notin DOMAIN rs
    THEN [rows |-> rs, out |-> "KeyError"]
    ELSE [rows |-> [i \in DOMAIN rs \ {task_id} |-> rs[i]], out |-> "ok"]

(* async with self._lock, entered by a coroutine while `locked` tells      *)
(* whether the lock is taken: asyncio.Lock is not reentrant, so a holder   *)
(* that acquires again waits for itself.                                   *)
delete(rs, task_id, locked) ==
    IF locked
    THEN [rows |-> rs, out |-> "Blocked"]
    ELSE [rows |-> [i \in DOMAIN rs \ {task_id} |-> rs[i]], out |-> "ok"]

(* _fetch answering for an identifier that has no row *)
fetch_missing_ok(rs, task_id, now, locked) ==
    [rows |-> rs, out |-> "ok"]

fetch(rs, task_id, now, locked) ==
    IF task_id \notin DOMAIN rs
    THEN [rows |-> rs, out |-> "KeyError"]
    ELSE IF is_expired(rs[task_id], now)
    THEN LET d == delete(rs, task_id, locked)
         IN  IF d.out = "Blocked"
             THEN [rows |-> rs, out |-> "Deadlock"]
             ELSE [rows |-> d.rows, out |-> "KeyError"]
    ELSE [rows |-> rs, out |-> "ok"]

get(rs, task_id, now) == fetch(rs, task_id, now, TRUE)

(* asyncio.Lock.acquire returns at once when the lock is free and waits    *)
(* otherwise.                                                              *)
acquire_anyway(l) == TRUE

can_acquire(l) == l = None

create(rs, record) ==
    [i \in DOMAIN rs \cup {record.id} |-> IF i = record.id THEN record ELSE rs[i]]

(* update taking every keyword argument for a column *)
update_fields_any(kwargs) == kwargs

(* The columns an update call writes, from its keyword arguments. *)
update_fields(kwargs) ==
    LET keys == {k \in DOMAIN kwargs :
                    \/ k = "status" /\ kwargs[k] \in TaskStatus
                    \/ k \in {"progress", "message", "result", "retention_days"}}
    IN  [k \in keys |-> kwargs[k]]

(* UPDATE tasks SET <columns> WHERE id = ?, skipped when no column is named *)
execute_update(rs, task_id, kwargs, now) ==
    LET fields == update_fields(kwargs)
        written == [k \in DOMAIN fields \cup {"updated_at"} |->
                        IF k = "updated_at" THEN now ELSE fields[k]]
    IN  IF DOMAIN fields = {} \/ task_id \notin DOMAIN rs
        THEN rs
        ELSE [rs EXCEPT ![task_id] =
                 [c \in DOMAIN rs[task_id] |->
                     IF c \in DOMAIN written THEN written[c] ELSE rs[task_id][c]]]

update(rs, task_id, kwargs, now) ==
    fetch(execute_update(rs, task_id, kwargs, now), task_id, now, TRUE)

(* SELECT events_json ... ; UPDATE tasks SET events_json = ?, updated_at = ? *)
select_events(rs, task_id) == rs[task_id].events

(* the UPDATE of append_event writing progress as well *)
write_events_and_progress(rs, task_id, events, now) ==
    [rs EXCEPT ![task_id].events = events, ![task_id].updated_at = now,
               ![task_id].progress = 0]

write_events(rs, task_id, events, now) ==
    [rs EXCEPT ![task_id].events = events, ![task_id].updated_at = now]

(* append_event putting the event first *)
append_event_front(rs, task_id, event, now) ==
    IF task_id \notin DOMAIN rs
    THEN [rows |-> rs, out |-> "KeyError"]
    ELSE [rows |-> write_events(rs, task_id, <<event>> \o select_events(rs, task_id), now),
          out |-> "ok"]

append_event(rs, task_id, event, now) ==
    IF task_id \notin DOMAIN rs
    THEN [rows |-> rs, out |-> "KeyError"]
    ELSE [rows |-> write_events(rs, task_id, Append(select_events(rs, task_id), event), now),
          out |-> "ok"]

(* SELECT ... WHERE owner = ? ORDER BY created_at DESC: the orders the     *)
(* query may return the owner's rows in (rows of equal created_at in any   *)
(* order).                                                                 *)
list_orders(rs, owner) ==
    LET ids == {i \in DOMAIN rs : rs[i].owner = owner}
    IN  {s \in [1..Cardinality(ids) -> ids] :
            /\ \A a, b \in DOMAIN s : a # b => s[a] # s[b]
            /\ \A a, b \in DOMAIN s : a < b => rs[s[a]].created_at >= rs[s[b]].created_at}

RECURSIVE list_scan(_, _, _, _, _, _, _)
list_scan(rs, snap, order, i, records, limit, now) ==
    IF i > Len(order)
    THEN [rows |-> rs, records |-> records]
    ELSE LET record == snap[order[i]]
         IN  IF is_expired(record, now)
             THEN list_scan(delete(rs, record.id, FALSE).rows, snap, order, i + 1,
                            records, limit, now)
             ELSE IF Len(records) + 1 >= limit
             THEN [rows |-> rs, records |-> Append(records, record)]
             ELSE list_scan(rs, snap, order, i + 1, Append(records, record), limit, now)

(* list without the expiry check: the first rows of the query *)
list_no_purge(rs, owner, order, limit, now) ==
    [rows |-> rs,
     records |-> [i \in 1..(IF Len(order) < limit THEN Len(order) ELSE limit) |->
                     rs[order[i]]]]

(* list deleting every row of the query *)
list_purge_all(rs, owner, order, limit, now) ==
    [rows |-> [i \in DOMAIN rs \ {order[j] : j \in DOMAIN order} |-> rs[i]],
     records |-> <<>>]

list(rs, owner, order, limit, now) == list_scan(rs, rs, order, 1, <<>>, limit, now)

----------------------------------------------------------------------------
(* Dynamically typed values of engine events and of config overrides *)

PyStr(s) == [t |-> "str", v |-> s]
PyNum(n) == [t |-> "num", v |-> n]
PyBool(b) == [t |-> "bool", v |-> b]
PyPath(s) == [t |-> "Path", v |-> s]

jsonify(value) ==
    IF value.t = "Path" THEN PyStr(value.v) ELSE value

(* getattr(result, name, None), then str() of it when it is truthy *)
path_or_none(attr) == IF attr = None THEN None ELSE Some(Str(attr[1]))

extract_result(result) ==
    IF result = None
    THEN None
    ELSE Some([original_pdf |-> path_or_none(result[1].original_pdf_path),
               mono_pdf |-> path_or_none(result[1].mono_pdf_path),
               dual_pdf |-> path_or_none(result[1].dual_pdf_path),
               output_dir |-> path_or_none(result[1].output_dir)])

sanitize_event(event) ==
    [key \in DOMAIN event |->
        IF key = "translate_result" THEN extract_result(event[key]) ELSE jsonify(event[key])]

(* What the translation engine's stream can yield *)
EngineResult(with_output_dir) ==
    [original_pdf_path |-> Some(Path(<<"original.pdf">>)),
     mono_pdf_path |-> Some(Path(<<"mono.pdf">>)),
     dual_pdf_path |-> None,
     output_dir |-> IF with_output_dir THEN Some(Path(<<"engine", "out">>)) ELSE None]

EngineEvents ==
    {[type |-> PyStr("progress"), progress |-> PyNum(50), file |-> PyPath(<<"in.pdf">>)],
     [type |-> PyStr("finish"), translate_result |-> Some(EngineResult(TRUE))],
     [type |-> PyStr("finish"), translate_result |-> Some(EngineResult(FALSE))],
     [type |-> PyStr("finish"), translate_result |-> None],
     [type |-> PyStr("error"), error |-> PyStr("layout analysis failed")]}

(* The events of ApiSpec's streams: what the endpoints answer does not     *)
(* depend on the event log.                                                *)
ApiEvents == {[type |-> PyStr("finish"), translate_result |-> Some(EngineResult(FALSE))]}

(* What the stream can raise, and str() of it *)
EngineFailures == {"TranslationError", "Exception"}
ExcText(exc) == "engine failure"

----------------------------------------------------------------------------
(* TranslationService *)

TaskDir(task_id) == <<"workspace", ToString(task_id)>>
OutputDir(task_id) == Path(TaskDir(task_id) \o <<"output">>)
InputPath(task_id) == Path(TaskDir(task_id) \o <<"input", "upload.pdf">>)

SettingKeys == {"gui", "debug", "output", "lang_out", "qps"}
BaseSettings ==
    [gui |-> PyBool(FALSE), debug |-> PyBool(FALSE), output |-> PyStr(<<"cwd">>),
     lang_out |-> PyStr("en"), qps |-> PyNum(4)]

(* `if overrides:` *)
truthy(value) ==
    CASE value.t = "dict" -> DOMAIN value.v # {}
      [] value.t = "list" -> value.v # <<>>
      [] value.t = "str" -> value.v # <<>>
      [] value.t = "num" -> value.v # 0
      [] value.t = "bool" -> value.v
      [] OTHER -> FALSE

(* ConfigManager.merge_settings([overrides, base_dict]) *)
merge_settings(overrides, base) ==
    [k \in DOMAIN base \cup DOMAIN overrides |->
        IF k \in DOMAIN overrides THEN overrides[k] ELSE base[k]]

(* ConfigManager._build_model_from_args(CLIEnvSettingsModel, merged) *)
schema_violations(merged) ==
    {k \in DOMAIN merged :
        \/ k \notin SettingKeys
        \/ k \in {"gui", "debug"} /\ merged[k].t # "bool"
        \/ k \in {"output", "lang_out"} /\ merged[k].t # "str"
        \/ k = "qps" /\ merged[k].t # "num"}

(* _build_settings without the three forced fields *)
build_settings_trusting(overrides, output_dir, fault) ==
    IF truthy(overrides) /\ overrides.t # "dict"
    THEN [out |-> "InvalidConfigError", message |-> "config must be a JSON object"]
    ELSE LET merged_dict == IF truthy(overrides)
                            THEN merge_settings(overrides.v, BaseSettings)
                            ELSE BaseSettings
         IN  IF schema_violations(merged_dict) # {}
             THEN [out |-> "InvalidConfigError", message |-> "validation errors"]
             ELSE IF fault
             THEN [out |-> "Error", message |-> "settings failure"]
             ELSE [out |-> "ok", settings |-> merged_dict]

(* fault: the settings models fail outside the ValidationError handler     *)
(* (CLIEnvSettingsModel() or to_settings_model() raising).                 *)
build_settings(overrides, output_dir, fault) ==
    IF truthy(overrides) /\ overrides.t # "dict"
    THEN [out |-> "InvalidConfigError", message |-> "config must be a JSON object"]
    ELSE LET merged_dict == IF truthy(overrides)
                            THEN merge_settings(overrides.v, BaseSettings)
                            ELSE BaseSettings
         IN  IF schema_violations(merged_dict) # {}
             THEN [out |-> "InvalidConfigError", message |-> "validation errors"]
             ELSE IF fault
             THEN [out |-> "Error", message |-> "settings failure"]
             ELSE [out |-> "ok",
                   settings |-> [merged_dict EXCEPT !.gui = PyBool(FALSE),
                                                    !.debug = PyBool(FALSE),
                                                    !.output = PyStr(Str(output_dir))]]

NewRecord(task_id, user, now) ==
    [id |-> task_id,
     owner |-> user.username,
     filename |-> "upload.pdf",
     input_path |-> InputPath(task_id),
     output_dir |-> OutputDir(task_id),
     status |-> "PENDING",
     created_at |-> now,
     updated_at |-> now,
     retention_days |-> user.retention_days,
     progress |-> 0,
     message |-> None,
     result |-> None,
     events |-> <<>>]

KeyErrorText == "'task_id'"

(* The except clauses of _run_task: record FAILED; an exception raised by  *)
(* that update leaves the coroutine.                                       *)
except_handler(rs, task_id, message, now) ==
    LET u == update(rs, task_id, [status |-> "FAILED", message |-> Some(message)], now)
    IN  [rows |-> u.rows,
         pc |-> CASE u.out = "ok" -> "returned"
                  [] u.out = "KeyError" -> "crashed"
                  [] OTHER -> "deadlocked"]

(* How a store call made inside the try block ends the handler, when it    *)
(* does not return normally.                                               *)
store_failure(r, task_id, now) ==
    IF r.out = "KeyError"
    THEN except_handler(r.rows, task_id, KeyErrorText, now)
    ELSE [rows |-> r.rows, pc |-> "deadlocked"]

setdefault(dict, key, value) ==
    IF key \in DOMAIN dict
    THEN dict
    ELSE [k \in DOMAIN dict \cup {key} |-> IF k = key THEN value ELSE dict[k]]

(* The result descriptor the finish branch persists *)
finish_result(event, settings) ==
    LET result_data == extract_result(IF "translate_result" \in DOMAIN event
                                      THEN event.translate_result ELSE None)
        output_dir_value == settings.output.v
    IN  IF result_data # None /\ output_dir_value # <<>>
        THEN Some(setdefault(result_data[1], "output_dir", Some(output_dir_value)))
        ELSE IF output_dir_value # <<>>
        THEN Some([output_dir |-> Some(output_dir_value)])
        ELSE result_data

(* the finish branch storing the result without the status *)
on_finish_result_only(rs, task_id, settings, event, now) ==
    LET u == update(rs, task_id, [result |-> finish_result(event, settings)], now)
    IN  IF u.out = "ok" THEN [rows |-> u.rows, pc |-> "returned"]
        ELSE store_failure(u, task_id, now)

on_finish(rs, task_id, settings, event, now) ==
    LET u == update(rs, task_id,
                    [status |-> "DONE", progress |-> ProgressDone,
                     message |-> Some("Completed"),
                     result |-> finish_result(event, settings)], now)
    IN  IF u.out = "ok" THEN [rows |-> u.rows, pc |-> "returned"]
        ELSE store_failure(u, task_id, now)

(* on_error without its return: the loop goes on after an error event *)
on_error_continues(rs, task_id, event, now) ==
    LET message == IF "error" \in DOMAIN event THEN event.error.v ELSE "Translation failed"
        u == update(rs, task_id, [status |-> "FAILED", message |-> Some(message)], now)
    IN  IF u.out = "ok" THEN [rows |-> u.rows, pc |-> "running"]
        ELSE [rows |-> u.rows, pc |-> "deadlocked"]

(* on_error recording the default text, whatever the event carries *)
on_error_default_text(rs, task_id, event, now) ==
    LET u == update(rs, task_id,
                    [status |-> "FAILED", message |-> Some("Translation failed")], now)
    IN  IF u.out = "ok" THEN [rows |-> u.rows, pc |-> "returned"]
        ELSE store_failure(u, task_id, now)

on_error(rs, task_id, event, now) ==
    LET message == IF "error" \in DOMAIN event THEN event.error.v ELSE "Translation failed"
        u == update(rs, task_id, [status |-> "FAILED", message |-> Some(message)], now)
    IN  IF u.out = "ok" THEN [rows |-> u.rows, pc |-> "returned"]
        ELSE store_failure(u, task_id, now)

(* One iteration of the async for loop of _run_task *)
on_event(rs, task_id, settings, event, now) ==
    LET a == append_event(rs, task_id, sanitize_event(event), now)
        numeric == "progress" \in DOMAIN event /\ event.progress.t = "num"
        b == IF numeric
             THEN update(a.rows, task_id, [progress |-> event.progress.v], now)
             ELSE [rows |-> a.rows, out |-> "ok"]
        event_type == IF "type" \in DOMAIN event THEN event.type ELSE PyStr("")
    IN  IF a.out # "ok" THEN store_failure(a, task_id, now)
        ELSE IF b.out # "ok" THEN store_failure(b, task_id, now)
        ELSE IF event_type = PyStr("finish")
        THEN on_finish(b.rows, task_id, settings, event, now)
        ELSE IF event_type = PyStr("error")
        THEN on_error(b.rows, task_id, event, now)
        ELSE [rows |-> b.rows, pc |-> "running"]

(* the fallback without progress=1.0 *)
on_stream_end_no_progress(rs, task_id, now) ==
    LET u == update(rs, task_id,
                    [status |-> "DONE", message |-> Some("Completed")], now)
    IN  [rows |-> u.rows, pc |-> IF u.out = "ok" THEN "returned" ELSE "deadlocked"]

(* the fallback without its update *)
on_stream_end_no_update(rs, task_id, now) ==
    [rows |-> rs, pc |-> "returned"]

(* The fallback after the loop, when the stream ends *)
on_stream_end(rs, task_id, now) ==
    LET u == update(rs, task_id,
                    [status |-> "DONE", progress |-> ProgressDone,
                     message |-> Some("Completed")], now)
    IN  IF u.out = "ok" THEN [rows |-> u.rows, pc |-> "returned"]
        ELSE store_failure(u, task_id, now)

----------------------------------------------------------------------------
(* The program: submissions, runners, endpoint calls and the clock *)

PyDict(f) == [t |-> "dict", v |-> f]

(* The override mappings _parse_config hands to submit *)
Overrides ==
    {PyDict(<<>>),
     PyDict([lang_out |-> PyStr("zh"), gui |-> PyBool(TRUE), debug |-> PyBool(TRUE),
             output |-> PyStr(<<"client", "out">>)]),
     PyDict([qps |-> PyStr("not-a-number")])}

(* A submission: the overrides, and whether the settings models fail *)
Submissions ==
    {[overrides |-> o, fault |-> FALSE] : o \in Overrides}
        \cup {[overrides |-> PyDict(<<>>), fault |-> TRUE]}

(* The override is not a mapping or violates the schema (spec 4.2) *)
fails_validation(overrides) ==
    \/ overrides.t # "dict"
    \/ schema_violations(merge_settings(overrides.v, BaseSettings)) # {}

NoCall == [op |-> "none", user |-> "", task_id |-> 0, out |-> "", records |-> <<>>]
Holder(who, task_id) == Some([who |-> who, task |-> task_id])

Init ==
    /\ clock = 0
    /\ rows = <<>>
    /\ nextId = 0
    /\ can_acquire(lock)
    /\ runner = [t \in TaskIds |-> [pc |-> "none", settings |-> None, spawned |-> 0]]
    /\ produced = [t \in TaskIds |-> <<>>]
    /\ submitted = [t \in TaskIds |-> None]
    /\ call = NoCall
    /\ pend = <<>>

(* submit without the update of its except clause *)
submit_keeps_pending(task_id, user, overrides, fault) ==
    LET rs1 == create(rows, NewRecord(task_id, user, clock))
        b == build_settings(overrides, OutputDir(task_id), fault)
    IN  IF b.out = "ok"
        THEN [rows |-> rs1, out |-> "ok", settings |-> Some(b.settings), spawn |-> 1]
        ELSE [rows |-> rs1, out |-> b.out, settings |-> None, spawn |-> 0]

(* submit scheduling the runner before it builds the settings *)
submit_spawns_first(task_id, user, overrides, fault) ==
    LET rs1 == create(rows, NewRecord(task_id, user, clock))
        b == build_settings(overrides, OutputDir(task_id), fault)
        u == update(rs1, task_id,
                    [status |-> "FAILED", message |-> Some(b.message)], clock)
        settings == Some([BaseSettings EXCEPT !.output = PyStr(Str(OutputDir(task_id)))])
    IN  IF b.out = "InvalidConfigError"
        THEN [rows |-> u.rows, out |-> b.out, settings |-> settings, spawn |-> 1]
        ELSE IF b.out = "Error"
        THEN [rows |-> rs1, out |-> "Error", settings |-> settings, spawn |-> 1]
        ELSE [rows |-> rs1, out |-> "ok", settings |-> Some(b.settings), spawn |-> 1]

(* create_task -> TranslationService.submit.  The store lock is free when  *)
(* create enters, so the coroutine runs to its return without suspending.  *)
(* spawn counts the asyncio.create_task calls.                             *)
submit(task_id, user, overrides, fault) ==
    LET output_dir == OutputDir(task_id)
        rs1 == create(rows, NewRecord(task_id, user, clock))
        b == build_settings(overrides, output_dir, fault)
        u == update(rs1, task_id,
                    [status |-> "FAILED", message |-> Some(b.message)], clock)
    IN  IF b.out = "InvalidConfigError"
        THEN [rows |-> u.rows,
              out |-> IF u.out = "Deadlock" THEN "hung" ELSE b.out,
              settings |-> None, spawn |-> 0]
        ELSE IF b.out = "Error"
        THEN [rows |-> rs1, out |-> "Error", settings |-> None, spawn |-> 0]
        ELSE [rows |-> rs1, out |-> "ok", settings |-> Some(b.settings), spawn |-> 1]

Submit(user, overrides, fault) ==
    /\ nextId < MaxTasks
    /\ can_acquire(lock)
    /\ LET task_id == nextId + 1
           s == submit(task_id, user, overrides, fault)
       IN  /\ nextId' = task_id
           /\ rows' = s.rows
           /\ lock' = IF s.out = "hung" THEN Holder("submit", task_id) ELSE None
           /\ submitted' = [submitted EXCEPT ![task_id] =
                  Some([owner |-> user.username, invalid |-> fails_validation(overrides),
                        out |-> s.out])]
           /\ runner' = [runner EXCEPT ![task_id] =
                  IF s.spawn > 0
                  THEN [pc |-> "scheduled", settings |-> s.settings,
                        spawned |-> @.spawned + s.spawn]
                  ELSE @]
    /\ UNCHANGED <<clock, produced, call, pend>>

(* a coroutine that keeps the store lock when its step ends *)
RunnerKeepsLock(t, r) ==
    /\ rows' = r.rows
    /\ runner' = [runner EXCEPT ![t].pc = r.pc]
    /\ lock' = Holder("runner", t)

(* What one step of the coroutine of task t leaves behind: the lock is     *)
(* released when the store call returns or raises, and stays taken when    *)
(* the call waits for itself.                                              *)
RunnerMoves(t, r) ==
    /\ rows' = r.rows
    /\ runner' = [runner EXCEPT ![t].pc = r.pc]
    /\ lock' = IF r.pc = "deadlocked" THEN Holder("runner", t) ELSE None

(* _run_task up to the loop: update(status=RUNNING), outside the try *)
run_task_start(rs, task_id, now) ==
    LET u == update(rs, task_id, [status |-> "RUNNING"], now)
    IN  [rows |-> u.rows,
         pc |-> CASE u.out = "ok" -> "running"
                  [] u.out = "KeyError" -> "raised_at_start"
                  [] OTHER -> "deadlocked"]

RunnerStart(t) ==
    /\ runner[t].pc = "scheduled"
    /\ can_acquire(lock)
    /\ RunnerMoves(t, run_task_start(rows, t, clock))
    /\ UNCHANGED <<clock, nextId, produced, submitted, call, pend>>

RunnerEvent(t, event) ==
    /\ runner[t].pc = "running"
    /\ can_acquire(lock)
    /\ Len(produced[t]) < MaxEvents
    /\ produced' = [produced EXCEPT ![t] = Append(@, event)]
    /\ RunnerMoves(t, on_event(rows, t, runner[t].settings[1], event, clock))
    /\ UNCHANGED <<clock, nextId, submitted, call, pend>>

RunnerStreamEnd(t) ==
    /\ runner[t].pc = "running"
    /\ can_acquire(lock)
    /\ RunnerMoves(t, on_stream_end(rows, t, clock))
    /\ UNCHANGED <<clock, nextId, produced, submitted, call, pend>>

(* The stream raises: TranslationError or any other exception, str(exc)    *)
(* being the message.                                                      *)
RunnerEngineRaises(t, exc) ==
    /\ runner[t].pc = "running"
    /\ can_acquire(lock)
    /\ RunnerMoves(t, except_handler(rows, t, ExcText(exc), clock))
    /\ UNCHANGED <<clock, nextId, produced, submitted, call, pend>>

RunnerStep(t, events) ==
    \/ RunnerStart(t)
    \/ \E event \in events : RunnerEvent(t, event)
    \/ RunnerStreamEnd(t)
    \/ \E exc \in EngineFailures : RunnerEngineRaises(t, exc)

(* lookup without the owner check *)
lookup_any_owner(rs, task_id, user, now) ==
    LET g == get(rs, task_id, now)
    IN  IF g.out = "Deadlock" THEN [rows |-> g.rows, out |-> "hung"]
        ELSE IF g.out = "KeyError" THEN [rows |-> g.rows, out |-> "404"]
        ELSE IF is_expired(g.rows[task_id], now)
        THEN [rows |-> delete(g.rows, task_id, FALSE).rows, out |-> "404"]
        ELSE [rows |-> g.rows, out |-> "200"]

(* storage.get, the owner check and the endpoint's own expiry check that   *)
(* get_task, download_result and download_archive start with.  A call      *)
(* takes less than one clock unit: both expiry checks read the same time.  *)
lookup(rs, task_id, user, now) ==
    LET g == get(rs, task_id, now)
    IN  IF g.out = "Deadlock" THEN [rows |-> g.rows, out |-> "hung"]
        ELSE IF g.out = "KeyError" THEN [rows |-> g.rows, out |-> "404"]
        ELSE IF g.rows[task_id].owner # user.username THEN [rows |-> g.rows, out |-> "404"]
        ELSE IF is_expired(g.rows[task_id], now)
        THEN [rows |-> delete(g.rows, task_id, FALSE).rows, out |-> "404"]
        ELSE [rows |-> g.rows, out |-> "200"]

(* observe: whether the answer is kept in `call` *)
Answers(observe, op, user, task_id, rs, out, records) ==
    /\ rows' = rs
    /\ lock' = IF out = "hung" THEN Holder(op, task_id) ELSE None
    /\ call' = IF observe
               THEN [op |-> op, user |-> user.username, task_id |-> task_id,
                     out |-> out, records |-> records]
               ELSE call
    /\ UNCHANGED <<clock, nextId, runner, produced, submitted, pend>>

GetTask(observe, user, task_id) ==
    /\ can_acquire(lock)
    /\ LET l == lookup(rows, task_id, user, clock)
       IN  Answers(observe, "get_task", user, task_id, l.rows, l.out,
                   IF l.out = "200" THEN <<task_id>> ELSE <<>>)

(* download_result and download_archive: the artifact is served when the   *)
(* record has a result (and the file is on disk).                          *)
Download(observe, op, user, task_id, on_disk) ==
    /\ can_acquire(lock)
    /\ LET l == lookup(rows, task_id, user, clock)
           served == l.out = "200" /\ l.rows[task_id].result # None /\ on_disk
       IN  Answers(observe, op, user, task_id, l.rows,
                   IF l.out = "200" /\ ~served THEN "404" ELSE l.out,
                   IF served THEN <<task_id>> ELSE <<>>)

(* list_tasks: limit = max(1, min(limit, 100)) *)
clamp(limit) ==
    LET low == IF limit < MaxLimit THEN limit ELSE MaxLimit
    IN  IF low > 1 THEN low ELSE 1

ListTasks(observe, user, limit) ==
    /\ can_acquire(lock)
    /\ \E order \in list_orders(rows, user.username) :
          LET l == list(rows, user.username, order, clamp(limit), clock)
          IN  Answers(observe, "list_tasks", user, 0, l.rows, "200",
                      [i \in DOMAIN l.records |-> l.records[i].id])

Tick ==
    /\ clock + TickDays <= MaxTicks * TickDays
    /\ clock' = clock + TickDays
    /\ UNCHANGED <<rows, nextId, lock, runner, produced, submitted, call, pend>>

Endpoints(observe) ==
    \/ \E user \in Users, t \in TaskIds : GetTask(observe, user, t)
    \/ \E user \in Users, t \in TaskIds, on_disk \in BOOLEAN :
          Download(observe, "download_result", user, t, on_disk)
    \/ \E user \in Users, t \in TaskIds, on_disk \in BOOLEAN :
          Download(observe, "download_archive", user, t, on_disk)
    \/ \E user \in Users, limit \in {0, DefaultLimit} : ListTasks(observe, user, limit)

Submits ==
    \E user \in Users, s \in Submissions : Submit(user, s.overrides, s.fault)

(* The whole program, the endpoints' answers not kept *)
Next ==
    \/ Submits
    \/ \E t \in TaskIds : RunnerStep(t, EngineEvents)
    \/ Endpoints(FALSE)
    \/ Tick

Spec == Init /\ [][Next]_vars

(* The program with the endpoints' answers kept in `call` *)
ApiNext ==
    \/ Submits
    \/ \E t \in TaskIds : RunnerStep(t, ApiEvents)
    \/ Endpoints(TRUE)
    \/ Tick

ApiSpec == Init /\ [][ApiNext]_vars

----------------------------------------------------------------------------
(* The store under concurrent callers: update and append_event calls, each *)
(* critical section taken one statement at a time.  pend.calls[c] is the   *)
(* call of caller c in flight; pend.serial is the table the calls give     *)
(* when each is applied whole, in the order of their writes.               *)

MaxCallers == 2
MaxCalls == 2

Callers == 1..MaxCallers

StoreEvents ==
    {sanitize_event(e) : e \in {ev \in EngineEvents : ev.type # PyStr("finish")}}

StoreRequests ==
    {[op |-> "append_event", task |-> t, event |-> e] : t \in TaskIds, e \in StoreEvents}
        \cup {[op |-> "update", task |-> t, kwargs |-> k] :
                 t \in TaskIds,
                 k \in {[progress |-> 50],
                        [status |-> "FAILED", message |-> Some("engine failure")],
                        [owner |-> "mallory"],
                        [progress |-> 50, owner |-> "mallory"]}}

Idle(n, out) == [pc |-> "idle", req |-> None, local |-> None, n |-> n, out |-> out]

InCriticalSection(c) ==
    pend.calls[c].pc \in {"locked", "selected", "executed", "deadlocked"}

StoreInit ==
    /\ clock = 0
    /\ \E present \in {{1}, TaskIds} :
          rows = [t \in present |->
                     [NewRecord(t, IF t = 1 THEN GUEST_USER ELSE RegisteredUser, 0)
                         EXCEPT !.status = "RUNNING"]]
    /\ nextId = MaxTasks
    /\ lock = None
    /\ runner = [t \in TaskIds |-> [pc |-> "none", settings |-> None, spawned |-> 0]]
    /\ produced = [t \in TaskIds |-> <<>>]
    /\ submitted = [t \in TaskIds |-> None]
    /\ call = NoCall
    /\ pend = [calls |-> [c \in Callers |-> Idle(0, "")], serial |-> rows]

StoreMoves(c, to, rs, serial, l) ==
    /\ pend' = [calls |-> [pend.calls EXCEPT ![c] = to], serial |-> serial]
    /\ rows' = rs
    /\ lock' = l
    /\ UNCHANGED <<clock, nextId, runner, produced, submitted, call>>

StoreIssue(c, req) ==
    /\ pend.calls[c].pc = "idle"
    /\ pend.calls[c].n < MaxCalls
    /\ StoreMoves(c, [pend.calls[c] EXCEPT !.pc = "waiting", !.req = Some(req), !.out = ""],
                  rows, pend.serial, lock)

(* async with self._lock *)
StoreAcquire(c) ==
    /\ pend.calls[c].pc = "waiting"
    /\ can_acquire(lock)
    /\ StoreMoves(c, [pend.calls[c] EXCEPT !.pc = "locked"], rows, pend.serial,
                  Holder("caller", c))

(* append_event: the SELECT, raising KeyError when there is no row *)
StoreSelect(c) ==
    LET me == pend.calls[c]
        req == me.req[1]
    IN  /\ me.pc = "locked"
        /\ req.op = "append_event"
        /\ IF req.task \notin DOMAIN rows
           THEN StoreMoves(c, Idle(me.n + 1, "KeyError"), rows, pend.serial, None)
           ELSE StoreMoves(c, [me EXCEPT !.pc = "selected",
                                         !.local = Some(select_events(rows, req.task))],
                           rows, pend.serial, lock)

(* append_event: events.append(sanitized), the UPDATE, and the lock's release *)
StoreWrite(c) ==
    LET me == pend.calls[c]
        req == me.req[1]
    IN  /\ me.pc = "selected"
        /\ StoreMoves(c, Idle(me.n + 1, "ok"),
                      write_events(rows, req.task, Append(me.local[1], req.event), clock),
                      append_event(pend.serial, req.task, req.event, clock).rows,
                      None)

(* update: the UPDATE statement *)
StoreExecute(c) ==
    LET me == pend.calls[c]
        req == me.req[1]
    IN  /\ me.pc = "locked"
        /\ req.op = "update"
        /\ StoreMoves(c, [me EXCEPT !.pc = "executed"],
                      execute_update(rows, req.task, req.kwargs, clock),
                      execute_update(pend.serial, req.task, req.kwargs, clock),
                      lock)

(* update: return await self._fetch(task_id), and the lock's release *)
StoreFetch(c) ==
    LET me == pend.calls[c]
        req == me.req[1]
        f == fetch(rows, req.task, clock, TRUE)
    IN  /\ me.pc = "executed"
        /\ IF f.out = "Deadlock"
           THEN StoreMoves(c, [me EXCEPT !.pc = "deadlocked"], f.rows, pend.serial, lock)
           ELSE StoreMoves(c, Idle(me.n + 1, f.out), f.rows, pend.serial, None)

StoreTick ==
    /\ clock + TickDays <= MaxTicks * TickDays
    /\ clock' = clock + TickDays
    /\ UNCHANGED <<rows, nextId, lock, runner, produced, submitted, call, pend>>

StoreNext ==
    \/ \E c \in Callers, req \in StoreRequests : StoreIssue(c, req)
    \/ \E c \in Callers : StoreAcquire(c)
    \/ \E c \in Callers : StoreSelect(c)
    \/ \E c \in Callers : StoreWrite(c)
    \/ \E c \in Callers : StoreExecute(c)
    \/ \E c \in Callers : StoreFetch(c)
    \/ StoreTick

StoreSpec == StoreInit /\ [][StoreNext]_vars

----------------------------------------------------------------------------
(* The settings builder on its own: _build_settings applied to an override *)
(* value of any type and a task's output directory.  pend holds the call.  *)

PyList(seq) == [t |-> "list", v |-> seq]
PyNone == [t |-> "none", v |-> <<>>]

(* An override mapping: each of gui, debug, output and qps absent (0) or   *)
(* given one of its values.                                                *)
OverrideMapping(gui, debug, output, qps) ==
    LET keys == {k \in {"gui", "debug", "output", "qps"} :
                    \/ k = "gui" /\ gui > 0
                    \/ k = "debug" /\ debug > 0
                    \/ k = "output" /\ output > 0
                    \/ k = "qps" /\ qps > 0}
    IN  PyDict([k \in keys |->
                   CASE k = "gui" -> PyBool(gui = 1)
                     [] k = "debug" -> PyBool(debug = 1)
                     [] k = "output" -> PyStr(<<"client", "out">>)
                     [] k = "qps" -> IF qps = 1 THEN PyNum(8)
                                     ELSE PyStr(<<"not-a-number">>)])

(* Values that are not mappings, falsy ones and truthy ones, and None *)
NonMappings ==
    <<PyList(<<>>), PyList(<<PyNum(1)>>), PyStr(<<>>), PyStr(<<"x">>),
      PyNum(0), PyNum(1), PyBool(FALSE), PyBool(TRUE)>>

BuilderCall(overrides, t) ==
    [pc |-> "called", overrides |-> overrides, task_id |-> t, built |-> None]

BuilderInit ==
    /\ clock = 0
    /\ rows = <<>>
    /\ nextId = 0
    /\ lock = None
    /\ runner = [t \in TaskIds |-> [pc |-> "none", settings |-> None, spawned |-> 0]]
    /\ produced = [t \in TaskIds |-> <<>>]
    /\ submitted = [t \in TaskIds |-> None]
    /\ call = NoCall
    /\ \E t \in TaskIds :
          \/ \E gui \in 0..2, debug \in 0..2, output \in 0..1, qps \in 0..2 :
                pend = BuilderCall(OverrideMapping(gui, debug, output, qps), t)
          \/ \E i \in DOMAIN NonMappings : pend = BuilderCall(NonMappings[i], t)
          \/ pend = BuilderCall(PyNone, t)

Build ==
    /\ pend.pc = "called"
    /\ pend' = [pend EXCEPT !.pc = "returned",
                            !.built = Some(build_settings(pend.overrides,
                                                          OutputDir(pend.task_id), FALSE))]
    /\ UNCHANGED <<clock, rows, nextId, lock, runner, produced, submitted, call>>

BuilderNext == Build

BuilderSpec == BuilderInit /\ [][BuilderNext]_vars

----------------------------------------------------------------------------
(* Accounts and the owner a request is given: register, login, and task    *)
(* requests with or without a bearer token.  pend holds the users table,   *)
(* the tasks that were submitted without credentials, and the last         *)
(* request's answer.  A token is the user it was issued to and the number  *)
(* of tokens issued to that user so far.                                   *)

MaxTokens == 2
MinUsernameLen == 3
MinPasswordLen == 6

(* A username as sent: a name without surrounding blanks, and the blanks   *)
(* around it.                                                              *)
Usernames ==
    {[blanks |-> b, name |-> n] : b \in {0, 1}, n \in {"guest", "alice", "al"}}

strip(username) == [blanks |-> 0, name |-> username.name]

len(username) ==
    2 * username.blanks
        + CASE username.name = "guest" -> 5
            [] username.name = "alice" -> 5
            [] username.name = "al" -> 2
            [] OTHER -> 0

Tokens == {[user |-> n, issue |-> i] : n \in {"guest", "alice", "al"}, i \in 1..MaxTokens}

(* INSERT INTO users: username is UNIQUE, retention_days is left NULL *)
register_user(users, username) ==
    LET name == strip(username).name
    IN  IF len(strip(username)) = 0
        THEN [users |-> users, out |-> "ValueError"]
        ELSE IF name \in DOMAIN users
        THEN [users |-> users, out |-> "UserExistsError"]
        ELSE [users |-> [n \in DOMAIN users \cup {name} |->
                            IF n = name THEN 1 ELSE users[n]],
              out |-> "ok"]

authenticate_user(users, username, password_ok) ==
    LET name == strip(username).name
    IN  IF name \notin DOMAIN users \/ ~password_ok
        THEN [users |-> users, out |-> "InvalidCredentialsError"]
        ELSE [users |-> [users EXCEPT ![name] = @ + 1], out |-> "ok"]

get_user_by_token(users, token) ==
    IF token.user \in DOMAIN users /\ users[token.user] = token.issue
    THEN Some([username |-> token.user, retention_days |-> None])
    ELSE None

(* get_optional_user: no credentials give no user, a token that is not in  *)
(* the table gives 401.                                                    *)
get_optional_user(users, credentials) ==
    IF credentials = None
    THEN [out |-> "ok", user |-> None]
    ELSE IF get_user_by_token(users, credentials[1]) = None
    THEN [out |-> "401", user |-> None]
    ELSE [out |-> "ok", user |-> get_user_by_token(users, credentials[1])]

get_user_or_guest(user) == IF user = None THEN GUEST_USER ELSE user[1]

Credentials == {None} \cup {Some(token) : token \in Tokens}

NoAnswer == [authenticated |-> FALSE, out |-> "", records |-> <<>>]

AuthInit ==
    /\ clock = 0
    /\ rows = <<>>
    /\ nextId = 0
    /\ lock = None
    /\ runner = [t \in TaskIds |-> [pc |-> "none", settings |-> None, spawned |-> 0]]
    /\ produced = [t \in TaskIds |-> <<>>]
    /\ submitted = [t \in TaskIds |-> None]
    /\ call = NoCall
    /\ pend = [users |-> <<>>, anonymous |-> {}, last |-> NoAnswer]

AuthFrame == UNCHANGED <<clock, lock, produced, call>>

(* register_endpoint *)
RegisterEndpoint(username, password_len) ==
    LET r == register_user(pend.users, strip(username))
    IN  /\ pend' = [pend EXCEPT
                       !.users = IF len(strip(username)) < MinUsernameLen
                                    \/ password_len < MinPasswordLen
                                 THEN @ ELSE r.users,
                       !.last = [NoAnswer EXCEPT
                                    !.out = IF len(strip(username)) < MinUsernameLen
                                               \/ password_len < MinPasswordLen
                                               \/ r.out = "UserExistsError"
                                            THEN "400" ELSE "201"]]
        /\ UNCHANGED <<rows, nextId, runner, submitted>>
        /\ AuthFrame

(* login_endpoint *)
LoginEndpoint(username, password_ok) ==
    LET a == authenticate_user(pend.users, username, password_ok)
    IN  /\ strip(username).name \in DOMAIN pend.users =>
               pend.users[strip(username).name] < MaxTokens
        /\ pend' = [pend EXCEPT !.users = a.users,
                                !.last = [NoAnswer EXCEPT
                                             !.out = IF a.out = "ok" THEN "200" ELSE "401"]]
        /\ UNCHANGED <<rows, nextId, runner, submitted>>
        /\ AuthFrame

Unauthorized(credentials) ==
    /\ pend' = [pend EXCEPT !.last = [authenticated |-> credentials # None,
                                      out |-> "401", records |-> <<>>]]
    /\ UNCHANGED <<rows, nextId, runner, submitted>>
    /\ AuthFrame

(* create_task as the owner the credentials resolve to *)
AuthCreateTask(credentials) ==
    LET o == get_optional_user(pend.users, credentials)
        user == get_user_or_guest(o.user)
        task_id == nextId + 1
        s == submit(task_id, user, PyDict(<<>>), FALSE)
    IN  /\ nextId < MaxTasks
        /\ IF o.out = "401"
           THEN Unauthorized(credentials)
           ELSE /\ nextId' = task_id
                /\ rows' = s.rows
                /\ submitted' = [submitted EXCEPT ![task_id] =
                       Some([owner |-> user.username, invalid |-> FALSE, out |-> s.out])]
                /\ runner' = [runner EXCEPT ![task_id] =
                       [pc |-> "scheduled", settings |-> s.settings,
                        spawned |-> @.spawned + s.spawn]]
                /\ pend' = [pend EXCEPT
                               !.anonymous = IF credentials = None
                                             THEN @ \cup {task_id} ELSE @,
                               !.last = [authenticated |-> credentials # None,
                                         out |-> "201", records |-> <<task_id>>]]
                /\ AuthFrame

(* get_task as the owner the credentials resolve to *)
AuthGetTask(credentials, task_id) ==
    LET o == get_optional_user(pend.users, credentials)
        l == lookup(rows, task_id, get_user_or_guest(o.user), clock)
    IN  IF o.out = "401"
        THEN Unauthorized(credentials)
        ELSE /\ rows' = l.rows
             /\ pend' = [pend EXCEPT
                            !.last = [authenticated |-> credentials # None,
                                      out |-> l.out,
                                      records |-> IF l.out = "200"
                                                  THEN <<task_id>> ELSE <<>>]]
             /\ UNCHANGED <<nextId, runner, submitted>>
             /\ AuthFrame

(* list_tasks as the owner the credentials resolve to *)
AuthListTasks(credentials) ==
    LET o == get_optional_user(pend.users, credentials)
        owner == get_user_or_guest(o.user).username
    IN  IF o.out = "401"
        THEN Unauthorized(credentials)
        ELSE \E order \in list_orders(rows, owner) :
                LET l == list(rows, owner, order, DefaultLimit, clock)
                IN  /\ rows' = l.rows
                    /\ pend' = [pend EXCEPT
                                   !.last = [authenticated |-> credentials # None,
                                             out |-> "200",
                                             records |-> [i \in DOMAIN l.records |->
                                                             l.records[i].id]]]
                    /\ UNCHANGED <<nextId, runner, submitted>>
                    /\ AuthFrame

AuthNext ==
    \/ \E username \in Usernames, password_len \in {MinPasswordLen - 1, MinPasswordLen} :
          RegisterEndpoint(username, password_len)
    \/ \E username \in Usernames, password_ok \in BOOLEAN :
          LoginEndpoint(username, password_ok)
    \/ \E credentials \in Credentials : AuthCreateTask(credentials)
    \/ \E credentials \in Credentials, t \in TaskIds : AuthGetTask(credentials, t)
    \/ \E credentials \in Credentials : AuthListTasks(credentials)

AuthSpec == AuthInit /\ [][AuthNext]_vars

(* The program under the scheduling asyncio gives: a coroutine that can    *)
(* run is run, and the engine's stream is finite.                          *)
FairSpec == Spec /\ \A t \in TaskIds : WF_vars(RunnerStep(t, EngineEvents))

----------------------------------------------------------------------------
(* Claims *)

Submitted(t) == submitted[t] # None
Accepted(t) == Submitted(t) /\ submitted[t][1].out = "ok"

(* C1: every accepted submission eventually has its record in DONE or      *)
(* FAILED, whatever get/list calls and clock ticks interleave.             *)
C1_EventuallyTerminal ==
    \A t \in TaskIds :
        Accepted(t) ~> (t \in DOMAIN rows /\ rows[t].status \in Terminal)

(* The status changes of the task state machine *)
StatusMoves ==
    {<<"PENDING", "RUNNING">>, <<"RUNNING", "DONE">>, <<"RUNNING", "FAILED">>,
     <<"PENDING", "FAILED">>}

C2_Step ==
    \A t \in DOMAIN rows' :
        IF t \in DOMAIN rows
        THEN \/ rows'[t].status = rows[t].status
             \/ <<rows[t].status, rows'[t].status>> \in StatusMoves
        ELSE /\ ~Submitted(t)
             /\ rows'[t].status \in {"PENDING", "FAILED"}

(* C2: in every step, over every interleaving of submit, runner and store  *)
(* operations, a record's status only moves PENDING->RUNNING,              *)
(* RUNNING->DONE, RUNNING->FAILED or PENDING->FAILED, and a DONE or FAILED *)
(* record keeps its status.                                                *)
C2_StatusMonotone == [][C2_Step]_vars

C2_Witness ==
    \E t, u \in DOMAIN rows :
        /\ rows[t].status = "DONE" /\ runner[t].pc = "returned"
        /\ rows[u].status = "FAILED" /\ runner[u].pc = "returned"

(* A get on an expired record answers not-found, the row gone *)
C3_Step ==
    (/\ call' # call
     /\ call'.op = "get_task"
     /\ call'.task_id \in DOMAIN rows
     /\ is_expired(rows[call'.task_id], clock))
        => (call'.out = "404" /\ call'.task_id \notin DOMAIN rows')

(* C3: get(id) on a record whose age exceeds its retention_days deletes    *)
(* the row and returns not-found to the caller.                            *)
C3_GetExpiredDeletes == [][C3_Step]_vars

(* C4: every record (or artifact of a record) an endpoint call returns is  *)
(* owned by the user the call was made as.                                 *)
C4_OwnerIsolation ==
    \A i \in DOMAIN call.records : submitted[call.records[i]][1].owner = call.user

C4_Witness ==
    /\ call.op \in {"get_task", "download_result", "download_archive"}
    /\ call.task_id \in DOMAIN rows
    /\ rows[call.task_id].owner # call.user
    /\ ~is_expired(rows[call.task_id], clock)
    /\ call.out = "404"

(* A success or error event *)
EndsStream(event) == event.type \in {PyStr("finish"), PyStr("error")}

(* C5: the persisted event log of a task is at all times a prefix, in      *)
(* stream order, of the sanitized events its stream produced; no event     *)
(* follows a finish or error event; and once the runner has returned the   *)
(* log is the whole consumed stream.                                       *)
C5_EventLog ==
    \A t \in DOMAIN rows :
        LET log == rows[t].events
            stream == produced[t]
        IN  /\ Len(log) <= Len(stream)
            /\ \A i \in DOMAIN log : log[i] = sanitize_event(stream[i])
            /\ \A i \in DOMAIN log : i < Len(log) => ~EndsStream(log[i])
            /\ runner[t].pc = "returned" => Len(log) = Len(stream)

C5_Witness ==
    \E t \in DOMAIN rows :
        /\ runner[t].pc = "returned"
        /\ Len(rows[t].events) = 2
        /\ rows[t].events[1].type = PyStr("progress")
        /\ rows[t].events[2].type = PyStr("finish")

(* C6: every record whose status is DONE has progress 1.0 *)
C6_DoneProgress ==
    \A t \in DOMAIN rows : rows[t].status = "DONE" => rows[t].progress = ProgressDone

C6_Witness ==
    \E t \in DOMAIN rows :
        /\ rows[t].status = "DONE"
        /\ rows[t].result = None
        /\ rows[t].events # <<>>
        /\ \A i \in DOMAIN rows[t].events : rows[t].events[i].type = PyStr("progress")

(* list for the owner of task t returns t *)
Listed(rs, t, now) ==
    \A order \in list_orders(rs, rs[t].owner) :
        \E i \in DOMAIN list(rs, rs[t].owner, order, DefaultLimit, now).records :
            list(rs, rs[t].owner, order, DefaultLimit, now).records[i].id = t

C7_Step ==
    \A t \in TaskIds :
        (submitted'[t] # None /\ submitted'[t][1].invalid) =>
            /\ submitted'[t][1].out = "InvalidConfigError"
            /\ runner'[t].pc = "none"
            /\ t \in DOMAIN rows' =>
                  /\ rows'[t].status = "FAILED"
                  /\ rows'[t].message = Some("validation errors")
            /\ submitted[t] = None => (t \in DOMAIN rows' /\ Listed(rows', t, clock'))

(* C7: a submit whose overrides fail validation ends with                  *)
(* InvalidConfigError; when it ends its record exists, is FAILED with the  *)
(* validation message and is listed for its owner; no runner is scheduled  *)
(* for it and it is never RUNNING or DONE.                                 *)
C7_InvalidSubmit == [][C7_Step]_vars

C7_Witness ==
    \E t \in DOMAIN rows :
        /\ Submitted(t)
        /\ submitted[t][1].invalid
        /\ rows[t].status = "FAILED"

(* C8: a runner is scheduled at most once per task identifier, and once    *)
(* exactly when the submit call that created the record returned it.       *)
C8_RunnerOnce ==
    \A t \in TaskIds :
        /\ runner[t].spawned <= 1
        /\ runner[t].spawned = 1 <=> Accepted(t)
        /\ runner[t].pc # "none" => runner[t].spawned = 1

C8_Witness ==
    \E t, u \in TaskIds :
        /\ Accepted(t) /\ runner[t].pc = "returned"
        /\ Submitted(u) /\ ~Accepted(u) /\ runner[u].spawned = 0

(* C9: no failure met inside the try block of _run_task leaves the        *)
(* runner: it returns normally, FAILED recorded.                           *)
C9_RunnerNeverRaises ==
    \A t \in TaskIds : runner[t].pc # "crashed"

(* C10: under concurrent update and append_event calls at most one call  *)
(* is inside the critical section, and the table is the one the calls give *)
(* applied whole, one after the other: no event, no written field is lost. *)
C10_Atomic ==
    /\ Cardinality({c \in Callers : InCriticalSection(c)}) <= 1
    /\ rows = pend.serial

C10_Witness ==
    \E t \in DOMAIN rows :
        /\ Len(rows[t].events) = 2
        /\ rows[t].progress = 50
        /\ \A c \in Callers : pend.calls[c].n = MaxCalls

(* C11: a runner that waits for its next engine event does not hold the    *)
(* store lock; the lock stays taken between steps only under a call that   *)
(* waits for itself on an expired record, never under an event wait, so    *)
(* store operations for other tasks go on while a stream is stalled.       *)
C11_NoLockAcrossEventWait ==
    /\ \A t \in TaskIds :
          runner[t].pc \in {"scheduled", "running"} => lock # Holder("runner", t)
    /\ lock # None =>
          /\ lock[1].task \in DOMAIN rows
          /\ is_expired(rows[lock[1].task], clock)

C11_Witness ==
    \E t, u \in DOMAIN rows :
        /\ t # u
        /\ runner[t].pc = "running"
        /\ rows[t].status = "RUNNING"
        /\ rows[u].created_at > rows[t].updated_at
        /\ rows[u].status = "DONE"
        /\ runner[u].pc = "returned"

(* A get_task call on an unknown, expired or foreign task answers 404 *)
C12_Step ==
    (/\ call' # call
     /\ call'.op = "get_task"
     /\ \/ call'.task_id \notin DOMAIN rows
        \/ is_expired(rows[call'.task_id], clock)
        \/ rows[call'.task_id].owner # call'.user)
        => call'.out = "404"

(* C12: a get for a task identifier returns the same not-found outcome     *)
(* when the identifier is unknown, when the record is expired and when the *)
(* record has another owner.                                               *)
C12_NotFoundUniform == [][C12_Step]_vars

(* The stream of task t ends: the record, if there, is DONE and complete *)
C13_Step ==
    \A t \in TaskIds :
        RunnerStreamEnd(t) =>
            /\ runner'[t].pc # "running"
            /\ t \in DOMAIN rows' =>
                  /\ rows'[t].status = "DONE"
                  /\ rows'[t].progress = ProgressDone
                  /\ rows'[t].message = Some("Completed")

(* C13: when the stream ends without a success or error event the runner   *)
(* leaves the task DONE with progress 1.0 and message "Completed",         *)
(* whatever progress the stream carried; it is not left RUNNING.           *)
C13_StreamEndFallback == [][C13_Step]_vars

C13_Witness ==
    \E t \in DOMAIN rows :
        /\ runner[t].pc = "returned"
        /\ Len(produced[t]) = MaxEvents
        /\ \A i \in DOMAIN produced[t] : produced[t][i].type = PyStr("progress")
        /\ rows[t].status = "DONE"
        /\ rows[t].progress = ProgressDone
        /\ rows[t].message = Some("Completed")

(* The runner of task t consumes an error event *)
C14_Step ==
    \A t \in TaskIds, event \in EngineEvents :
        (event.type = PyStr("error") /\ RunnerEvent(t, event)) =>
            /\ runner'[t].pc # "running"
            /\ t \in DOMAIN rows' =>
                  /\ rows'[t].status = "FAILED"
                  /\ rows'[t].message = Some(event.error.v)

(* C14: on an error event the runner moves the task to FAILED with the     *)
(* error text the event carries as its message, and stops.                 *)
C14_ErrorEventFails == [][C14_Step]_vars

C14_Witness ==
    \E t \in DOMAIN rows :
        /\ runner[t].pc = "returned"
        /\ produced[t] # <<>>
        /\ produced[t][Len(produced[t])].type = PyStr("error")
        /\ rows[t].status = "FAILED"
        /\ rows[t].message = Some("layout analysis failed")

(* C15: after a success event the persisted result descriptor has its      *)
(* output_dir set: the engine's value when the engine gave one, else the   *)
(* task's own output directory, for every shape of the engine's result.    *)
C15_OutputDirPersisted ==
    \A t \in DOMAIN rows :
        (/\ runner[t].pc = "returned"
         /\ produced[t] # <<>>
         /\ produced[t][Len(produced[t])].type = PyStr("finish")) =>
            LET result == produced[t][Len(produced[t])].translate_result
            IN  /\ rows[t].result # None
                /\ rows[t].result[1].output_dir =
                       IF result # None /\ result[1].output_dir # None
                       THEN Some(Str(result[1].output_dir[1]))
                       ELSE Some(Str(OutputDir(t)))

(* C16: delete of an identifier without a row succeeds and leaves the      *)
(* table as it is, and delete twice leaves the table delete once leaves.   *)
C16_DeleteIdempotent ==
    \A task_id \in TaskIds :
        LET once == delete(rows, task_id, FALSE)
            twice == delete(once.rows, task_id, FALSE)
        IN  /\ once.out = "ok"
            /\ twice.out = "ok"
            /\ twice.rows = once.rows
            /\ task_id \notin DOMAIN rows => once.rows = rows

C16_Witness ==
    \E t \in TaskIds :
        /\ Submitted(t)
        /\ t \notin DOMAIN rows
        /\ DOMAIN rows # {}
        /\ delete(rows, t, FALSE).rows = rows

(* C17: for every owner and every limit from 0 up, list returns at most    *)
(* limit records, all of the owner, newest created_at first.               *)
C17_ListCapped ==
    \A user \in Users, limit \in 0..MaxTasks :
        \A order \in list_orders(rows, user.username) :
            LET records == list(rows, user.username, order, limit, clock).records
            IN  /\ Len(records) <= limit
                /\ \A i \in DOMAIN records : records[i].owner = user.username
                /\ \A i, j \in DOMAIN records :
                      i < j => records[i].created_at >= records[j].created_at

(* The rows among the first i of the query that are not expired *)
LiveUpTo(order, i) ==
    {j \in 1..i : ~is_expired(rows[order[j]], clock)}

(* C18: list with a limit of 1 or more returns no expired record; every    *)
(* expired row its scan meets is deleted and does not count against the   *)
(* limit; no other row is deleted; and it returns limit records whenever   *)
(* the owner has that many that are not expired.                           *)
C18_ListPurgesExpired ==
    \A user \in Users, limit \in 1..MaxTasks :
        \A order \in list_orders(rows, user.username) :
            LET l == list(rows, user.username, order, limit, clock)
                live == Cardinality(LiveUpTo(order, Len(order)))
            IN  /\ \A i \in DOMAIN l.records : ~is_expired(l.records[i], clock)
                /\ Len(l.records) = IF live < limit THEN live ELSE limit
                /\ \A i \in DOMAIN order :
                      IF is_expired(rows[order[i]], clock)
                      THEN Cardinality(LiveUpTo(order, i)) < limit
                               => order[i] \notin DOMAIN l.rows
                      ELSE order[i] \in DOMAIN l.rows
                /\ \A t \in DOMAIN rows :
                      rows[t].owner # user.username => t \in DOMAIN l.rows

C18_Witness ==
    \E t \in TaskIds, u \in DOMAIN rows :
        /\ Submitted(t)
        /\ t \notin DOMAIN rows
        /\ rows[u].owner = submitted[t][1].owner
        /\ ~is_expired(rows[u], clock)

(* C19: the settings builder rejects every override that is not a mapping  *)
(* with InvalidConfigError, empty sequences, empty strings and zero        *)
(* included; only a mapping or an absent override is accepted.             *)
C19_NonMappingRejected ==
    (pend.pc = "returned" /\ pend.overrides.t \notin {"dict", "none"})
        => pend.built[1].out = "InvalidConfigError"

(* C20: for every override mapping that passes validation, the built       *)
(* settings have gui off, debug off, and the task's own output directory.  *)
C20_ForcedFields ==
    (pend.pc = "returned" /\ pend.built[1].out = "ok") =>
        /\ pend.built[1].settings.gui = PyBool(FALSE)
        /\ pend.built[1].settings.debug = PyBool(FALSE)
        /\ pend.built[1].settings.output = PyStr(Str(OutputDir(pend.task_id)))

C20_Witness ==
    /\ pend.pc = "returned"
    /\ pend.built[1].out = "ok"
    /\ pend.overrides.t = "dict"
    /\ DOMAIN pend.overrides.v = {"gui", "debug", "output", "qps"}
    /\ pend.overrides.v.gui = PyBool(TRUE)
    /\ pend.overrides.v.debug = PyBool(TRUE)

(* A step removes only rows that are expired, and a row that is not        *)
(* expired is answered to its owner when the store lock is free.           *)
C21_Step ==
    /\ \A t \in DOMAIN rows : t \notin DOMAIN rows' => is_expired(rows[t], clock)
    /\ \A t \in DOMAIN rows' :
          (~is_expired(rows'[t], clock') /\ can_acquire(lock')) =>
              lookup(rows', t, [username |-> rows'[t].owner], clock').out = "200"

(* C21: a record is removed only when it is expired at that moment; a      *)
(* record without retention_days is never removed by a get, list, update   *)
(* or endpoint call, however old; and a record that is not expired stays   *)
(* retrievable by its owner.                                               *)
C21_RemovedOnlyWhenExpired == [][C21_Step]_vars

C21_Witness ==
    /\ call.op = "list_tasks"
    /\ \E i \in DOMAIN call.records :
          /\ call.records[i] \in DOMAIN rows
          /\ rows[call.records[i]].retention_days = None
          /\ clock - rows[call.records[i]].created_at > GuestRetentionDays
    /\ \E t \in TaskIds : Submitted(t) /\ t \notin DOMAIN rows

(* The UPDATE step of an update call on a row that is there and not expired *)
C22_Step ==
    \A c \in Callers :
        (/\ StoreExecute(c)
         /\ pend.calls[c].req[1].task \in DOMAIN rows
         /\ ~is_expired(rows[pend.calls[c].req[1].task], clock))
            => rows'[pend.calls[c].req[1].task].updated_at = clock

(* C22: every update call that succeeds on an existing record refreshes    *)
(* updated_at, whatever fields it is given: recognised, unknown or both.   *)
C22_UpdateRefreshes == [][C22_Step]_vars

(* A statement of update or append_event on an identifier without a row *)
C23_Step ==
    \A c \in Callers :
        (/\ StoreSelect(c) \/ StoreExecute(c) \/ StoreFetch(c)
         /\ pend.calls[c].req[1].task \notin DOMAIN rows)
            => /\ rows' = rows
               /\ pend.calls[c].pc = "locked" /\ pend.calls[c].req[1].op = "update"
                     => pend'.calls[c].pc = "executed"
               /\ ~(pend.calls[c].pc = "locked" /\ pend.calls[c].req[1].op = "update")
                     => pend'.calls[c] = Idle(pend.calls[c].n + 1, "KeyError")

(* C23: update and append_event on an identifier that has no record fail   *)
(* with not-found and leave the store as it is: no record is created and   *)
(* no other record is changed.                                             *)
C23_AbsentNotFound == [][C23_Step]_vars

C23_Witness ==
    /\ DOMAIN rows = {1}
    /\ rows[1].events = <<>>
    /\ rows[1].updated_at = 0
    /\ \A c \in Callers : pend.calls[c] = Idle(MaxCalls, "KeyError")

(* The write of an append_event call *)
C24_Step ==
    \A c \in Callers :
        StoreWrite(c) =>
            LET task_id == pend.calls[c].req[1].task
                event == pend.calls[c].req[1].event
            IN  /\ DOMAIN rows' = DOMAIN rows
                /\ rows'[task_id].events = Append(rows[task_id].events, event)
                /\ rows'[task_id].updated_at = clock
                /\ \A f \in DOMAIN rows[task_id] \ {"events", "updated_at"} :
                      rows'[task_id][f] = rows[task_id][f]
                /\ \A t \in DOMAIN rows \ {task_id} : rows'[t] = rows[t]

(* C24: append_event on an existing record appends that one event at the   *)
(* end of its log, keeps every earlier event in place, refreshes           *)
(* updated_at, and leaves status, progress, message, result and every      *)
(* other record as they are.                                               *)
C24_AppendFrame == [][C24_Step]_vars

C24_Witness ==
    \E t \in DOMAIN rows :
        /\ Len(rows[t].events) = 2
        /\ rows[t].events[1] # rows[t].events[2]
        /\ rows[t].updated_at = TickDays
        /\ rows[t].progress = 50
        /\ rows[t].status = "FAILED"

(* The creation fields of every row a step keeps are as they were *)
C25_Step ==
    \A t \in DOMAIN rows \cap DOMAIN rows' :
        \A f \in {"id", "owner", "filename", "input_path", "output_dir", "created_at"} :
            rows'[t][f] = rows[t][f]

(* C25: id, owner, filename, input_path, output_dir and created_at of a    *)
(* record never change after create, under update calls with any field     *)
(* names and under append_event calls.                                     *)
C25_CreationFieldsFrozen == [][C25_Step]_vars

C25_Witness ==
    \E c \in Callers :
        /\ pend.calls[c].pc = "executed"
        /\ pend.calls[c].req[1].op = "update"
        /\ DOMAIN pend.calls[c].req[1].kwargs = {"progress", "owner"}
        /\ pend.calls[c].req[1].task \in DOMAIN rows
        /\ rows[pend.calls[c].req[1].task].progress = 50
        /\ rows[pend.calls[c].req[1].task].owner # "mallory"

(* C26: a record has a result descriptor only if its status is DONE *)
C26_ResultOnlyWhenDone ==
    \A t \in DOMAIN rows : rows[t].result # None => rows[t].status = "DONE"

C26_Witness ==
    \E t, u \in DOMAIN rows :
        /\ rows[t].status = "DONE"
        /\ rows[t].result # None
        /\ rows[u].status = "FAILED"
        /\ rows[u].events # <<>>
        /\ rows[u].result = None

(* C27: every store operation that takes the store lock releases it: once  *)
(* a handler's store calls are over the lock is free, so no other caller   *)
(* is blocked for ever.                                                    *)
C27_LockReleased == lock = None

(* C28: however a submit call ended after creating its record, the record  *)
(* is not PENDING without a runner scheduled.                              *)
C28_NoOrphanPending ==
    \A t \in DOMAIN rows :
        (Submitted(t) /\ rows[t].status = "PENDING") => runner[t].spawned = 1

(* C29: the owner given to requests without credentials is the username   *)
(* of no registered user; a task submitted without credentials is not      *)
(* returned to a request carrying a registered user's token, and a         *)
(* registered user's task is not returned to a request without             *)
(* credentials.                                                            *)
C29_GuestDistinct ==
    /\ GUEST_USER.username \notin DOMAIN pend.users
    /\ \A i \in DOMAIN pend.last.records :
          pend.last.authenticated <=> pend.last.records[i] \notin pend.anonymous

====
